---- MODULE Spec2Model ----
(***************************************************************************)
(* Month-grid calendar (Arzooqad/google-calendar): the task store          *)
(* (taskSlice), the Calendar component's selection gesture, the dnd-kit    *)
(* move gesture, the TaskItem resize gesture and the create/edit dialog,   *)
(* modelled as one state machine driven by pointer and dialog events.      *)
(*                                                                         *)
(* Dates are calendar days (integers): every date the program stores is a  *)
(* local midnight (parseISO of a yyyy-MM-dd key, a grid cell's date, or    *)
(* addDays of one of these); instants (getTime) are in hours and follow    *)
(* the timezone of the browser.  Pixels are integers.                      *)
(***************************************************************************)
EXTENDS Integers, Sequences, FiniteSets, TLC

\* ------------------------------------------------------------ bounds
\* Grid cells (and task dates) are the days 0..MaxDay.
MaxDay == 2
\* Ids crypto.randomUUID hands out are 1..MaxId: at most MaxId tasks are ever created.
MaxId == 1
\* The non-zero width getBoundingClientRect measures for a cell, in pixels.
CellW == 4

\* ------------------------------------------------- program constants
\* MouseSensor activationConstraint.distance
ActivationDistance == 5
\* handleDragEnd: Math.abs(event.delta.x) > 2 || Math.abs(event.delta.y) > 2
DropMinDelta == 2
\* handleDragEnd: 1000 * 60 * 60 * 24 milliseconds, in hours
HoursPerDay == 24

Days == 0..MaxDay
Widths == {0, CellW}
\* e.clientX of a mousedown on a resize handle
DownXs == {CellW}
\* e.clientX of the mousemoves that follow: half-cell multiples, from four cells to
\* the left of the mousedown to two cells to its right
PointerXs == {(k * CellW) \div 2 : k \in {0 - 6, 0, 2, 3, 4, 6}}
\* event.delta values: within DropMinDelta, beyond it but within the activation
\* distance, beyond both
DndDeltas == {<<0, 2>>, <<3, 3>>, <<0 - 6, 0>>}

\* the day of the grid during which the browser's timezone puts its clocks forward
\* by an hour; 0 - 1: no such day in the grid
DstStarts == {0 - 1, 1}

Categories == {"To Do", "In Progress", "Review", "Completed"}
\* the categories the modelled user picks in the dialog
CategoryChoices == {"To Do"}
\* what the modelled user types in the name field: sequences of characters
TypedNames == {<<>>, <<" ">>, <<" ", "b", " ">>}

\* null / a present value
None == <<>>
Some(x) == <<x>>

VARIABLES
  dstStart,         \* the timezone: the day the clocks go forward (see DstStarts)
  currentDate,      \* Calendar.currentDate: the day the page was opened (its month is shown)
  filters,          \* state.filters of the task slice: [categories, timeRange, searchQuery]
  tasks,            \* state.tasks of the task slice: a sequence of Task records
  storage,          \* localStorage["calendar_tasks"]: None or Some(serialized tasks)
  nextId,           \* the next id crypto.randomUUID returns
  cellWidthRef,     \* Calendar.cellWidthRef.current
  cellWidth,        \* the cellWidth prop the rendered TaskItems hold (last Calendar render)
  isDragging,       \* Calendar.isDragging (selection gesture in progress)
  startDateRef,     \* Calendar.startDateRef.current (selection anchor)
  selectedDates,    \* Calendar.selectedDates: set of yyyy-MM-dd keys
  lastCell,         \* the day cell the selection gesture's pointer was last over (None: idle)
  isModalOpen,      \* Calendar.isModalOpen
  modalData,        \* Calendar.modalData: None or Some([startDate, endDate])
  editingTask,      \* Calendar.editingTask: None or Some(task)
  draggedTask,      \* Calendar.draggedTask: None or Some(id of the task); only the overlay reads it
  dragPosition,     \* Calendar.dragPosition: None or Some(position)
  dndPhase,         \* MouseSensor on a task item: "idle", "armed" (pending) or "dragging"
  dndActive,        \* id of the task item the sensor was armed on (0: none)
  dndTarget,        \* what the pointer went down on: "body", "edit" or "delete"
  dndDelta,         \* event.delta: pointer displacement since pointer-down
  dndPeak,          \* largest squared displacement seen since pointer-down
  resizeListeners,  \* window mousemove/mouseup listener pairs of resize gestures (closures)
  resizeStartPos,   \* TaskItem.resizeStartPos.current: None or Some([x, date])
  isResizing,       \* TaskItem.isResizing
  lastClientX,      \* e.clientX of the last mousemove the resize listeners got (None: none yet)
  selectionListeners, \* copies of the Calendar effect's window listeners installed
  buttonDown,       \* a mouse button is held
  secondDown,       \* a second mouse button is held as well
  toast,            \* the notification the last event emitted ("none" if none)
  intent,           \* the store mutation the last event dispatched ("none" if none)
  confirmAnswer     \* what window.confirm answered during the last event ("none": not asked)

vars == <<dstStart, currentDate, filters, tasks, storage, nextId, cellWidthRef, cellWidth, isDragging, startDateRef,
          selectedDates, lastCell, isModalOpen, modalData, editingTask, draggedTask, dragPosition,
          dndPhase, dndActive, dndTarget, dndDelta, dndPeak, resizeListeners,
          resizeStartPos, isResizing, lastClientX, selectionListeners, buttonDown,
          secondDown, toast, intent, confirmAnswer>>

envVars == <<dstStart, currentDate, filters>>
selectionVars == <<isDragging, startDateRef, selectedDates, lastCell>>
modalVars == <<isModalOpen, modalData, editingTask>>
storeVars == <<tasks, storage, nextId>>
dndVars == <<dndPhase, dndActive, dndTarget, dndDelta, dndPeak>>
overlayVars == <<draggedTask, dragPosition>>
resizeVars == <<resizeListeners, resizeStartPos, isResizing, lastClientX>>
buttonVars == <<buttonDown, secondDown>>

\* ------------------------------------------------------------ dates
\* date-fns addDays
addDays(date, n) == date + n
\* date-fns format(date, "yyyy-MM-dd"): the key of a day
format(date) == <<"yyyy-MM-dd", date>>
\* date-fns parseISO of a yyyy-MM-dd key: local midnight of that day
parseISO(key) == key[2]
\* date-fns isSameDay
isSameDay(a, b) == a = b
\* Date.prototype.getTime of the local midnight of a day, in hours: a midnight
\* after the clocks went forward comes an hour early
getTime(date) == HoursPerDay * date - (IF date > dstStart THEN 1 ELSE 0)
\* Date.prototype.toJSON (ISO-8601 instant), as JSON.stringify writes a Date
toJSON(date) == <<"iso", getTime(date)>>
\* Math.round(a / b) for b > 0: halves round towards +Infinity
MathRound(a, b) == (2 * a + b) \div (2 * b)
\* Math.floor(a / b) for b > 0
MathFloor(a, b) == a \div b
\* Math.abs
MathAbs(n) == IF n < 0 THEN 0 - n ELSE n

\* --------------------------------------------------------- calendar
\* Day 0 is Sunday 2024-01-28; the months the model knows are February 2024 to
\* February 2026 (grids of four, five and six week rows occur among them).
\* the day number of 2024-02-01
FirstOfCalendar == 4
\* the number of days of each month, from February 2024 on
MonthLengths == <<29, 31, 30, 31, 30, 31, 31, 30, 31, 30, 31,
                  31, 28, 31, 30, 31, 30, 31, 31, 30, 31, 30, 31,
                  31, 28>>
RECURSIVE monthFirst(_)
monthFirst(i) == IF i = 1 THEN FirstOfCalendar ELSE monthFirst(i - 1) + MonthLengths[i - 1]
\* the first day of each month, and of the month after the last one
MonthFirsts == [i \in 1..(Len(MonthLengths) + 1) |-> monthFirst(i)]
\* the month a day falls in: its index in MonthLengths (0: an earlier month,
\* Len(MonthLengths) + 1: a later one)
MonthOfDay ==
  [date \in ((FirstOfCalendar - 7)..(MonthFirsts[Len(MonthLengths) + 1] + 13)) |->
     Cardinality({i \in 1..(Len(MonthLengths) + 1) : MonthFirsts[i] <= date})]
monthOf(date) == MonthOfDay[date]
\* the days a Date of the model may be: a week before the first known month to
\* two weeks after the last
CalendarDays == (FirstOfCalendar - 7)..(MonthFirsts[Len(MonthLengths) + 1] + 13)
\* new Date(isoString): the Date of that instant
NewDate(iso) == CHOOSE date \in CalendarDays : getTime(date) = iso[2]
\* Date.prototype.getDay: 0 is Sunday
getDay(date) == date % 7
\* date-fns startOfDay: every date of the model is a local midnight already
startOfDay(date) == date
\* date-fns startOfWeek with the default weekStartsOn (Sunday), Monday-first variant
startOfWeek_monday(date) == date - ((getDay(date) + 6) % 7)
startOfWeek(date) == date - getDay(date)
\* date-fns endOfWeek (the Saturday; its time of day is dropped by eachDayOfInterval)
endOfWeek(date) == date + (6 - getDay(date))
\* date-fns startOfMonth, endOfMonth, isSameMonth
startOfMonth(date) == MonthFirsts[monthOf(date)]
endOfMonth(date) == MonthFirsts[monthOf(date) + 1] - 1
isSameMonth(a, b) == monthOf(a) = monthOf(b)
\* date-fns eachDayOfInterval, isWithinInterval, differenceInDays (of local midnights)
eachDayOfInterval(start, end) == [i \in 1..(end - start + 1) |-> start + i - 1]
isWithinInterval(date, start, end) == start <= date /\ date <= end
differenceInDays(a, b) == a - b
\* Math.min
MathMin(a, b) == IF a < b THEN a ELSE b

\* taskSlice.getMonthDays
getMonthDays(date) ==
  LET monthStart == startOfMonth(date)
      monthEnd == endOfMonth(date)
      calendarStart == startOfWeek(monthStart)
      calendarEnd == endOfWeek(monthEnd)
      days == eachDayOfInterval(calendarStart, calendarEnd)
  IN [i \in 1..Len(days) |->
        [date |-> days[i],
         isCurrentMonth |-> isSameMonth(days[i], monthStart),
         isToday |-> isSameDay(days[i], currentDate)]]

\* ------------------------------------------------------------ names
\* String.prototype.trim on a sequence of characters
RECURSIVE trimStart(_)
trimStart(s) == IF s # <<>> /\ Head(s) = " " THEN trimStart(Tail(s)) ELSE s
RECURSIVE trimEnd(_)
trimEnd(s) == IF s # <<>> /\ s[Len(s)] = " " THEN trimEnd(SubSeq(s, 1, Len(s) - 1)) ELSE s
trim(s) == trimEnd(trimStart(s))

\* ------------------------------------------------------- task store
Task(id, name, category, startDate, endDate) ==
  [id |-> id, name |-> name, category |-> category,
   startDate |-> startDate, endDate |-> endDate]

\* JSON.stringify(tasks): every Date is written as its ISO string. A stored text
\* is [parses, value]: whether JSON.parse accepts it, and the list it yields
stringify(ts) ==
  [parses |-> TRUE,
   value |-> [i \in 1..Len(ts) |->
                [ts[i] EXCEPT !.startDate = toJSON(@), !.endDate = toJSON(@)]]]

\* a stored text JSON.parse throws on
Unparsable == [parses |-> FALSE, value |-> <<>>]

\* saveTasksToStorage: localStorage.setItem(STORAGE_KEY, JSON.stringify(tasks))
saveTasksToStorage(ts) == Some(stringify(ts))

\* loadInitialState: parse the stored list, turn the date strings back into Dates;
\* [] when nothing is stored or when parsing throws (the catch branch)
loadInitialState(stored) ==
  IF stored = None THEN <<>>
  ELSE IF ~stored[1].parses THEN <<>>
  ELSE [i \in 1..Len(stored[1].value) |->
          [stored[1].value[i] EXCEPT !.startDate = NewDate(@), !.endDate = NewDate(@)]]

\* Array.prototype.findIndex by id: the first index, 0 when there is none (-1 in the code)
RECURSIVE findIndexFrom(_, _, _)
findIndexFrom(ts, id, i) ==
  IF i > Len(ts) THEN 0
  ELSE IF ts[i].id = id THEN i
  ELSE findIndexFrom(ts, id, i + 1)
findIndex(ts, id) == findIndexFrom(ts, id, 1)

\* Array.prototype.filter(task => task.id !== id)
RECURSIVE filterOutId(_, _)
filterOutId(ts, id) ==
  IF ts = <<>> THEN <<>>
  ELSE IF Head(ts).id = id THEN filterOutId(Tail(ts), id)
  ELSE <<Head(ts)>> \o filterOutId(Tail(ts), id)

\* The reducers, on st = [tasks, storage]
addTask_sameId(st, payload, id) ==
  LET ts == Append(st.tasks, Task(1, payload.name, payload.category, payload.startDate,
                                  payload.endDate))
  IN [tasks |-> ts, storage |-> saveTasksToStorage(ts)]
addTask(st, payload, id) ==
  LET newTask == Task(id, payload.name, payload.category, payload.startDate, payload.endDate)
      ts == Append(st.tasks, newTask)
  IN [tasks |-> ts, storage |-> saveTasksToStorage(ts)]

\* updateTask that adds the payload when no task has its id
updateTask_upsert(st, payload) ==
  LET index == findIndex(st.tasks, payload.id)
      ts == IF index # 0 THEN [st.tasks EXCEPT ![index] = payload]
            ELSE Append(st.tasks, payload)
  IN [tasks |-> ts, storage |-> saveTasksToStorage(ts)]

updateTask(st, payload) ==
  LET index == findIndex(st.tasks, payload.id)
  IN IF index # 0
     THEN LET ts == [st.tasks EXCEPT ![index] = payload]
          IN [tasks |-> ts, storage |-> saveTasksToStorage(ts)]
     ELSE st

\* deleteTask that leaves the stored list as it was
deleteTask_notSaved(st, id) ==
  [tasks |-> filterOutId(st.tasks, id), storage |-> st.storage]

deleteTask(st, id) ==
  LET ts == filterOutId(st.tasks, id)
  IN [tasks |-> ts, storage |-> saveTasksToStorage(ts)]

Store == [tasks |-> tasks, storage |-> storage]

TaskIds == {tasks[i].id : i \in 1..Len(tasks)}
\* the task a rendered TaskItem with this id holds (first match in the task array)
TaskById(id) == tasks[findIndex(tasks, id)]

\* ---------------------------------------------------- resize gesture
\* resizeUpdatedTask without the range checks: the new date is always taken
resizeUpdatedTask_noGuard(L, startPos, clientX) ==
  LET newDate == addDays(startPos.date, MathRound(clientX - startPos.x, L.cellWidth))
  IN IF L.edge = "left"
     THEN [L.task EXCEPT !.startDate = newDate]
     ELSE [L.task EXCEPT !.endDate = newDate]

\* resizeUpdatedTask with <= and >= for < and >: the edges may meet
resizeUpdatedTask_mayMeet(L, startPos, clientX) ==
  LET newDate == addDays(startPos.date, MathRound(clientX - startPos.x, L.cellWidth))
  IN IF L.edge = "left"
     THEN IF newDate <= L.task.endDate
          THEN [L.task EXCEPT !.startDate = newDate] ELSE L.task
     ELSE IF newDate >= L.task.startDate
          THEN [L.task EXCEPT !.endDate = newDate] ELSE L.task

\* TaskItem.handleResizeStart.handleMouseMove: the task it dispatches.
\* L is the closure of the gesture: the task, edge and cellWidth of the render
\* in which the pointer went down.
resizeUpdatedTask(L, startPos, clientX) ==
  LET deltaX == clientX - startPos.x
      daysDelta == MathRound(deltaX, L.cellWidth)
      newDate == addDays(startPos.date, daysDelta)
  IN IF L.edge = "left"
     THEN IF newDate < L.task.endDate
          THEN [L.task EXCEPT !.startDate = newDate] ELSE L.task
     ELSE IF newDate > L.task.startDate
          THEN [L.task EXCEPT !.endDate = newDate] ELSE L.task

\* the guard of handleMouseMove: if (!resizeStartPos.current || !cellWidth) return
resizeMoveRuns(L, startPos) == startPos # None /\ L.cellWidth # 0

\* resizeHandleMouseMove with "cellWidth || 1" in place of the early return
resizeHandleMouseMove_widthFallback(st, L, startPos, clientX) ==
  IF startPos # None
  THEN updateTask(st, resizeUpdatedTask([L EXCEPT !.cellWidth = IF @ = 0 THEN 1 ELSE @],
                                        startPos[1], clientX))
  ELSE st

\* resizeHandleMouseMove working on the task as the store holds it now, not on the
\* snapshot of the closure
resizeHandleMouseMove_fromStore(st, L, startPos, clientX) ==
  IF resizeMoveRuns(L, startPos) /\ findIndex(st.tasks, L.task.id) # 0
  THEN updateTask(st, resizeUpdatedTask([L EXCEPT !.task = st.tasks[findIndex(st.tasks, L.task.id)]],
                                        startPos[1], clientX))
  ELSE st

\* one pointer move delivered to one closure
resizeHandleMouseMove(st, L, startPos, clientX) ==
  IF resizeMoveRuns(L, startPos)
  THEN updateTask(st, resizeUpdatedTask(L, startPos[1], clientX))
  ELSE st

\* window delivers the move to every installed closure, in installation order
RECURSIVE resizeDeliverMove(_, _, _, _)
resizeDeliverMove(st, Ls, startPos, clientX) ==
  IF Ls = <<>> THEN st
  ELSE resizeDeliverMove(resizeHandleMouseMove(st, Head(Ls), startPos, clientX),
                         Tail(Ls), startPos, clientX)

\* ------------------------------------------------------ move gesture
\* MouseSensor distance constraint: sqrt(dx^2 + dy^2) > distance
Dist2(delta) == delta[1] * delta[1] + delta[2] * delta[2]
\* activationConstraint distance 0: any movement starts the drag
hasExceededDistance_anyMove(delta) == Dist2(delta) > 0
hasExceededDistance(delta) == Dist2(delta) > ActivationDistance * ActivationDistance

\* handleDragEnd: "Only move if it's actually a drag"
isActualDrag(delta) ==
  MathAbs(delta[1]) > DropMinDelta \/ MathAbs(delta[2]) > DropMinDelta

\* handleDragEnd: the task it dispatches for a drop on the cell of targetDate
movedTask(task, targetDate) ==
  LET duration == MathFloor(getTime(task.endDate) - getTime(task.startDate), HoursPerDay)
      newStartDate == targetDate
      newEndDate == addDays(newStartDate, duration)
  IN [task EXCEPT !.startDate = newStartDate, !.endDate = newEndDate]

\* ---------------------------------------------------------- filters
\* initialState.filters
initialFilters == [categories |-> <<>>, timeRange |-> None, searchQuery |-> <<>>]
\* taskSlice.reducers.updateFilters: { ...state.filters, ...payload }; payload is
\* a function from some of the three field names
updateFilters(f, payload) ==
  [k \in DOMAIN f |-> IF k \in DOMAIN payload THEN payload[k] ELSE f[k]]
\* String.prototype.toLowerCase, character by character
toLowerCase(str) ==
  [i \in 1..Len(str) |-> CASE str[i] = "A" -> "a" [] str[i] = "B" -> "b" [] OTHER -> str[i]]
\* String.prototype.includes
includes(str, sub) ==
  \E k \in 0..(Len(str) - Len(sub)) : \A i \in 1..Len(sub) : str[k + i] = sub[i]
\* Array.prototype.includes
arrayIncludes(arr, x) == \E i \in 1..Len(arr) : arr[i] = x

\* filterTasks(tasks, filters); today: startOfDay(new Date()).  Variant whose day
\* window is tested against the start day only.
filterTasks_startOnly(ts, f, today) ==
  LET keeps(task) ==
        IF Len(f.categories) > 0 /\ ~arrayIncludes(f.categories, task.category) THEN FALSE
        ELSE IF f.timeRange # None
                /\ ~isWithinInterval(startOfDay(task.startDate), today, addDays(today, f.timeRange[1] * 7))
        THEN FALSE
        ELSE IF f.searchQuery # <<>>
        THEN includes(toLowerCase(task.name), toLowerCase(f.searchQuery))
        ELSE TRUE
  IN SelectSeq(ts, keeps)
filterTasks(ts, f, today) ==
  LET keeps(task) ==
        LET rangeEnd == addDays(today, f.timeRange[1] * 7)
            taskStart == startOfDay(task.startDate)
            taskEnd == startOfDay(task.endDate)
        IN IF Len(f.categories) > 0 /\ ~arrayIncludes(f.categories, task.category) THEN FALSE
           ELSE IF f.timeRange # None
                   /\ ~isWithinInterval(taskStart, today, rangeEnd)
                   /\ ~isWithinInterval(taskEnd, today, rangeEnd)
           THEN FALSE
           ELSE IF f.searchQuery # <<>>
           THEN includes(toLowerCase(task.name), toLowerCase(f.searchQuery))
           ELSE TRUE
  IN SelectSeq(ts, keeps)
\* Calendar.filteredTasks (computed on the day the page is open)
filteredTasks == filterTasks(tasks, filters, startOfDay(currentDate))

\* ------------------------------------------------ rendering of tasks
\* the dates of the day cells Calendar renders: monthDays.map(day => day.date)
gridDates ==
  LET monthDays == getMonthDays(currentDate)
  IN {monthDays[i].date : i \in 1..Len(monthDays)}

\* Calendar.getTasksForDate
getTasksForDate(date) ==
  LET spans(task) == isWithinInterval(startOfDay(date), startOfDay(task.startDate),
                                      startOfDay(task.endDate))
  IN SelectSeq(filteredTasks, spans)

\* CalendarCell: whether the cell of date renders a TaskItem for the task
\* ("only show at start date or beginning of weeks"); variant showing it at the
\* start date only
shouldShowTask_startOnly(task, date) ==
  /\ isWithinInterval(startOfDay(date), startOfDay(task.startDate), startOfDay(task.endDate))
  /\ isSameDay(startOfDay(date), startOfDay(task.startDate))
shouldShowTask(task, date) ==
  LET taskStartDate == startOfDay(task.startDate)
      taskEndDate == startOfDay(task.endDate)
      cellDate == startOfDay(date)
      isTaskStart == isSameDay(cellDate, taskStartDate)
      isWeekStart == getDay(cellDate) = 0
  IN /\ isWithinInterval(cellDate, taskStartDate, taskEndDate)
     /\ (isTaskStart \/ isWeekStart)

\* CalendarCell: the daysWidth it gives that TaskItem; variants not cut at the end
\* of the week, and counting the days left exclusively
daysWidth_untilTaskEnd(task, date) ==
  differenceInDays(startOfDay(task.endDate), startOfDay(date)) + 1
daysWidth_exclusive(task, date) ==
  LET remainingDuration == differenceInDays(startOfDay(task.endDate), startOfDay(date))
      daysUntilWeekEnd == 7 - getDay(startOfDay(date))
  IN MathMin(daysUntilWeekEnd, remainingDuration)
daysWidth(task, date) ==
  LET remainingDuration == differenceInDays(startOfDay(task.endDate), startOfDay(date)) + 1
      daysUntilWeekEnd == 7 - getDay(startOfDay(date))
  IN MathMin(daysUntilWeekEnd, remainingDuration)

\* the TaskItems the cell of date renders: tasks.map in CalendarCell over the
\* tasks Calendar hands it
cellItems(date) ==
  LET ts == getTasksForDate(date)
  IN {[id |-> ts[i].id, date |-> date, daysWidth |-> daysWidth(ts[i], date)] :
        i \in {j \in 1..Len(ts) : shouldShowTask(ts[j], date)}}

\* the tasks whose TaskItems the cell of date stacks, from the top: tasks.map in
\* CalendarCell keeps the order of the tasks it is handed (null for those not
\* shown); variant that puts the earlier start date first
cellStack_byStartDate(date) ==
  LET shown(task) == shouldShowTask(task, date)
      ts == SelectSeq(getTasksForDate(date), shown)
      rank(i) == Cardinality({j \in 1..Len(ts) :
                   ts[j].startDate < ts[i].startDate \/ (ts[j].startDate = ts[i].startDate /\ j <= i)})
  IN [r \in 1..Len(ts) |-> ts[CHOOSE i \in 1..Len(ts) : rank(i) = r]]
cellStack(date) ==
  LET shown(task) == shouldShowTask(task, date)
  IN SelectSeq(getTasksForDate(date), shown)

\* all TaskItems of the grid: monthDays.map in Calendar
renderedItems == UNION {cellItems(date) : date \in gridDates}

\* ------------------------------------------------- selection gesture
\* handleMouseMove: every day from min(anchor, current) to max(anchor, current);
\* variant counting up from the anchor only
selectionRange_forwardOnly(startDate, cellDate) == {format(d) : d \in startDate..cellDate}
selectionRange(startDate, cellDate) ==
  LET lo == IF startDate < cellDate THEN startDate ELSE cellDate
      hi == IF startDate < cellDate THEN cellDate ELSE startDate
  IN {format(d) : d \in lo..hi}

\* handleMouseUp: Array.from(selectedDates).map(parseISO).sort(ascending)
RECURSIVE sortAsc(_)
sortAsc(S) ==
  IF S = {} THEN <<>>
  ELSE LET m == CHOOSE x \in S : \A y \in S : x <= y
       IN <<m>> \o sortAsc(S \ {m})
sortedDates(keys) == sortAsc({parseISO(k) : k \in keys})

\* =================================================================
\* Handlers of the Calendar component (each an action on its own state)
\* =================================================================

\* Calendar re-renders (its state or the store changed): the TaskItems get the
\* cell width the ref holds now, and the listener effect runs: its cleanup removes
\* the listeners it installed and, if isDragging, it installs them again.
\* A ref write alone never re-renders.
Render ==
  /\ cellWidth' = cellWidthRef
  /\ selectionListeners' = IF isDragging' THEN 1 ELSE 0
NoRender == UNCHANGED <<cellWidth, selectionListeners>>

\* handleMouseDown without the ".task-item" check
handleMouseDown_noTaskCheck(button, onTask, date) ==
  IF button # 0
  THEN UNCHANGED selectionVars
  ELSE /\ isDragging' = TRUE
       /\ startDateRef' = Some(date)
       /\ selectedDates' = {format(date)}
       /\ lastCell' = Some(date)

\* Calendar.handleMouseDown(e, date); onTask: e.target.closest(".task-item")
handleMouseDown(button, onTask, date) ==
  IF button # 0 \/ onTask
  THEN UNCHANGED selectionVars
  ELSE /\ isDragging' = TRUE
       /\ startDateRef' = Some(date)
       /\ selectedDates' = {format(date)}
       /\ lastCell' = Some(date)

\* Calendar.handleMouseMove(e); cell: getDateFromPoint(e.clientX, e.clientY)
handleMouseMove(cell) ==
  IF ~isDragging \/ startDateRef = None \/ cell = None
  THEN UNCHANGED selectionVars
  ELSE /\ selectedDates' = selectionRange(startDateRef[1], cell[1])
       /\ lastCell' = cell
       /\ UNCHANGED <<isDragging, startDateRef>>

\* handleMouseUp that forgets startDateRef.current = null
handleMouseUp_keepsAnchor ==
  IF ~isDragging \/ startDateRef = None \/ selectedDates = {}
  THEN UNCHANGED <<selectionVars, modalVars>>
  ELSE LET dates == sortedDates(selectedDates)
       IN /\ modalData' = Some([startDate |-> dates[1], endDate |-> dates[Len(dates)]])
          /\ isModalOpen' = TRUE
          /\ isDragging' = FALSE
          /\ selectedDates' = {}
          /\ lastCell' = None
          /\ UNCHANGED <<startDateRef, editingTask>>

\* Calendar.handleMouseUp (window mouseup / mouseleave, container onMouseLeave)
handleMouseUp ==
  IF ~isDragging \/ startDateRef = None \/ selectedDates = {}
  THEN UNCHANGED <<selectionVars, modalVars>>
  ELSE LET dates == sortedDates(selectedDates)
       IN /\ modalData' = Some([startDate |-> dates[1], endDate |-> dates[Len(dates)]])
          /\ isModalOpen' = TRUE
          /\ isDragging' = FALSE
          /\ startDateRef' = None
          /\ selectedDates' = {}
          /\ lastCell' = None
          /\ UNCHANGED editingTask

\* handleEditTask that opens the dialog without remembering the task
handleEditTask_noTask(task) ==
  /\ editingTask' = None
  /\ modalData' = Some([startDate |-> task.startDate, endDate |-> task.endDate])
  /\ isModalOpen' = TRUE

\* Calendar.handleEditTask(task)
handleEditTask(task) ==
  /\ editingTask' = Some(task)
  /\ modalData' = Some([startDate |-> task.startDate, endDate |-> task.endDate])
  /\ isModalOpen' = TRUE

\* handleDeleteTask that deletes whatever window.confirm returns
handleDeleteTask_ignoresAnswer(taskId, confirm) ==
  /\ tasks' = deleteTask(Store, taskId).tasks
  /\ storage' = deleteTask(Store, taskId).storage
  /\ toast' = "deleted"
  /\ intent' = "delete"
  /\ confirmAnswer' = IF confirm THEN "yes" ELSE "no"

\* CalendarCell.handleDeleteTask(taskId); confirm: what window.confirm returns
handleDeleteTask(taskId, confirm) ==
  IF confirm
  THEN /\ tasks' = deleteTask(Store, taskId).tasks
       /\ storage' = deleteTask(Store, taskId).storage
       /\ toast' = "deleted"
       /\ intent' = "delete"
       /\ confirmAnswer' = "yes"
  ELSE /\ UNCHANGED <<tasks, storage>>
       /\ toast' = "none"
       /\ intent' = "none"
       /\ confirmAnswer' = "no"

\* Calendar.handleDragStart(event); task: event.active.data.current
handleDragStart(task) ==
  /\ draggedTask' = Some(task.id)
  /\ dragPosition' = Some("rect")

\* Calendar.handleDragEnd(event); over: event.over (None or Some([type, date])),
\* delta: event.delta, active: event.active.data.current (None or Some(task))
handleDragEnd(over, delta, active) ==
  IF over = None \/ active = None
  THEN /\ UNCHANGED <<tasks, storage, overlayVars>>
       /\ toast' = "none"
       /\ intent' = "none" /\ confirmAnswer' = "none"
  ELSE IF isActualDrag(delta)
       THEN IF over[1].type # "cell"
            THEN /\ UNCHANGED <<tasks, storage, overlayVars>>
                 /\ toast' = "none"
                 /\ intent' = "none" /\ confirmAnswer' = "none"
            ELSE LET st == updateTask(Store, movedTask(active[1], over[1].date))
                 IN /\ tasks' = st.tasks
                    /\ storage' = st.storage
                    /\ toast' = "updated"
                    /\ intent' = "move" /\ confirmAnswer' = "none"
                    /\ draggedTask' = None
                    /\ dragPosition' = None
       ELSE /\ UNCHANGED <<tasks, storage>>
            /\ toast' = "none"
            /\ intent' = "none" /\ confirmAnswer' = "none"
            /\ draggedTask' = None
            /\ dragPosition' = None

\* TaskItem.handleResizeStart(e, edge) on the item of `task`: the closure keeps the
\* task, the edge, the cellWidth prop and isResizing of the current render
handleResizeStart(task, edge, clientX) ==
  /\ isResizing' = TRUE
  /\ resizeStartPos' =
       Some([x |-> clientX, date |-> IF edge = "left" THEN task.startDate ELSE task.endDate])
  /\ resizeListeners' =
       Append(resizeListeners,
              [task |-> task, edge |-> edge, cellWidth |-> cellWidth,
               isResizing |-> isResizing])
  /\ lastClientX' = None

\* Calendar TaskModal onClose
\* onClose that forgets to drop the task being edited
onClose_keepsEditingTask ==
  /\ isModalOpen' = FALSE
  /\ modalData' = None
  /\ UNCHANGED editingTask

onClose ==
  /\ isModalOpen' = FALSE
  /\ modalData' = None
  /\ editingTask' = None

\* onSave that dispatches addTask also when a task is being edited
onSave_alwaysAdds(taskData) ==
  /\ LET st == addTask(Store, taskData, nextId)
     IN /\ editingTask = None => nextId <= MaxId
        /\ tasks' = st.tasks
        /\ storage' = st.storage
        /\ nextId' = nextId + 1
        /\ toast' = IF editingTask # None THEN "updated" ELSE "created"
        /\ intent' = IF editingTask # None THEN "edit" ELSE "add"
        /\ confirmAnswer' = "none"
  /\ onClose

\* Calendar TaskModal onSave(taskData), then the three setters that close the dialog
onSave(taskData) ==
  /\ IF editingTask # None
     THEN LET e == editingTask[1]
              named == [e EXCEPT
                          !.name = IF taskData.name # <<>> THEN taskData.name ELSE e.name,
                          !.category = taskData.category]
              withStart == IF ~isSameDay(taskData.startDate, e.startDate)
                           THEN [named EXCEPT !.startDate = taskData.startDate] ELSE named
              updatedTask == IF ~isSameDay(taskData.endDate, e.endDate)
                             THEN [withStart EXCEPT !.endDate = taskData.endDate]
                             ELSE withStart
              st == updateTask(Store, updatedTask)
          IN /\ tasks' = st.tasks
             /\ storage' = st.storage
             /\ nextId' = nextId
             /\ toast' = "updated"
             /\ intent' = "edit" /\ confirmAnswer' = "none"
     ELSE LET st == addTask(Store, taskData, nextId)
          IN /\ nextId <= MaxId
             /\ tasks' = st.tasks
             /\ storage' = st.storage
             /\ nextId' = nextId + 1
             /\ toast' = "created"
             /\ intent' = "add" /\ confirmAnswer' = "none"
  /\ onClose

\* =================================================================
\* Events
\* =================================================================

\* what localStorage may hold when the page loads
StoredValues == {None, saveTasksToStorage(<<Task(1, <<"a">>, "In Progress", 0, 2)>>)}

\* event.over of a drag end: no droppable, the droppable of a day cell, or one
\* whose data is not of type "cell"
Overs ==
  {None, Some([type |-> "task", date |-> 0])} \cup {Some([type |-> "cell", date |-> d]) : d \in Days}

TaskDatesInRange(ts) ==
  \A i \in 1..Len(ts) : ts[i].startDate \in Days /\ ts[i].endDate \in Days

\* the components as mounted: Calendar and TaskItem state, nothing in progress
UiInit ==
  /\ cellWidthRef = 0
  /\ cellWidth = 0
  /\ isDragging = FALSE
  /\ startDateRef = None
  /\ selectedDates = {}
  /\ lastCell = None
  /\ isModalOpen = FALSE
  /\ modalData = None
  /\ editingTask = None
  /\ draggedTask = None
  /\ dragPosition = None
  /\ dndPhase = "idle"
  /\ dndActive = 0
  /\ dndTarget = "none"
  /\ dndDelta = <<0, 0>>
  /\ dndPeak = 0
  /\ resizeListeners = <<>>
  /\ resizeStartPos = None
  /\ isResizing = FALSE
  /\ lastClientX = None
  /\ selectionListeners = 0
  /\ buttonDown = FALSE
  /\ secondDown = FALSE
  /\ toast = "none"
  /\ intent = "none"
  /\ confirmAnswer = "none"

\* the page is opened in February 2024: the grid begins at day 0 and the cells
\* 0..MaxDay lie in its first week row
Init ==
  /\ dstStart \in DstStarts
  /\ currentDate = FirstOfCalendar
  /\ filters = initialFilters
  /\ storage \in StoredValues
  /\ tasks = loadInitialState(storage)
  /\ nextId = Len(tasks) + 1
  /\ UiInit

\* updateCellWidth: on mount and on every window resize (no button is held while
\* the window is resized)
UpdateCellWidth ==
  \E w \in Widths :
    /\ ~buttonDown
    /\ cellWidthRef' = w
    /\ NoRender
    /\ toast' = "none"
    /\ intent' = "none" /\ confirmAnswer' = "none"
    /\ UNCHANGED <<envVars, storeVars, selectionVars, modalVars, overlayVars, dndVars,
                   resizeVars, buttonVars>>

\* mousedown on a day cell, outside every task item
PointerDownCell ==
  \E button \in {0, 2}, date \in Days :
    /\ UNCHANGED <<envVars, storeVars, cellWidthRef, modalVars, overlayVars, dndVars, resizeVars>>
    /\ ~buttonDown /\ ~isModalOpen
    /\ buttonDown' = TRUE /\ UNCHANGED secondDown
    /\ handleMouseDown(button, FALSE, date)
    /\ IF button = 0 THEN Render ELSE NoRender
    /\ toast' = "none"
    /\ intent' = "none" /\ confirmAnswer' = "none"

\* mousedown (left button) on a task item, outside its resize handles: the
\* MouseSensor listener of the item arms, then the event bubbles to the cell the
\* item is mounted in (the cell of the task's start date)
PointerDownTask ==
  \E id \in TaskIds, target \in {"body", "edit", "delete"}, date \in Days :
    /\ ~buttonDown /\ ~isModalOpen
    /\ date = TaskById(id).startDate
    /\ buttonDown' = TRUE /\ UNCHANGED secondDown
    /\ dndPhase' = "armed"
    /\ dndActive' = id
    /\ dndTarget' = target
    /\ dndDelta' = <<0, 0>>
    /\ dndPeak' = 0
    /\ handleMouseDown(0, TRUE, date)
    /\ NoRender
    /\ toast' = "none"
    /\ intent' = "none" /\ confirmAnswer' = "none"
    /\ UNCHANGED <<envVars, storeVars, cellWidthRef, modalVars, overlayVars, resizeVars>>

\* mousedown on a resize handle: handleResizeStart stops the propagation
PointerDownHandle ==
  \E id \in TaskIds, edge \in {"left", "right"}, clientX \in DownXs :
    /\ ~buttonDown /\ ~isModalOpen
    /\ buttonDown' = TRUE /\ UNCHANGED secondDown
    /\ handleResizeStart(TaskById(id), edge, clientX)
    /\ NoRender
    /\ toast' = "none"
    /\ intent' = "none" /\ confirmAnswer' = "none"
    /\ UNCHANGED <<envVars, storeVars, cellWidthRef, selectionVars, modalVars, overlayVars, dndVars>>

\* mousedown of a second button while a resize gesture is in progress and the
\* pointer has not moved: it is on the same handle of the same task item, at the
\* same place (handleResizeStart does not look at e.button)
PointerDownHandleAgain ==
  \E i \in 1..Len(resizeListeners) :
    LET id == resizeListeners[i].task.id
    IN /\ buttonDown /\ ~secondDown /\ ~isModalOpen
       /\ id \in TaskIds
       /\ lastClientX = None /\ resizeStartPos # None
       /\ secondDown' = TRUE /\ UNCHANGED buttonDown
       /\ handleResizeStart(TaskById(id), resizeListeners[i].edge, resizeStartPos[1].x)
       /\ NoRender
       /\ toast' = "none"
       /\ intent' = "none" /\ confirmAnswer' = "none"
       /\ UNCHANGED <<envVars, storeVars, cellWidthRef, selectionVars, modalVars, overlayVars,
                      dndVars>>

\* mousedown of a second button while a resize gesture is in progress, on the
\* other handle of the same task item: the pointer has been moved there (one item
\* width away from the handle of the first mousedown) and the item is still where
\* it was, the moves on the way having changed nothing
PointerDownOtherHandle ==
  \E i \in 1..Len(resizeListeners) :
    LET L == resizeListeners[i]
        id == L.task.id
        itemWidth == (L.task.endDate - L.task.startDate + 1) * CellW
    IN /\ buttonDown /\ ~secondDown /\ ~isModalOpen
       /\ id \in TaskIds
       /\ TaskById(id) = L.task
       /\ lastClientX # None /\ resizeStartPos # None
       /\ lastClientX[1] = IF L.edge = "left" THEN resizeStartPos[1].x + itemWidth
                           ELSE resizeStartPos[1].x - itemWidth
       /\ secondDown' = TRUE /\ UNCHANGED buttonDown
       /\ handleResizeStart(TaskById(id), IF L.edge = "left" THEN "right" ELSE "left",
                            lastClientX[1])
       /\ NoRender
       /\ toast' = "none"
       /\ intent' = "none" /\ confirmAnswer' = "none"
       /\ UNCHANGED <<envVars, storeVars, cellWidthRef, selectionVars, modalVars, overlayVars,
                      dndVars>>

\* mousemove while the selection listeners are installed
SelectionMove ==
  \E cell \in {None} \cup {Some(d) : d \in Days} :
    /\ UNCHANGED <<envVars, storeVars, cellWidthRef, modalVars, overlayVars, dndVars,
                   resizeVars, buttonVars>>
    /\ selectionListeners > 0
    /\ handleMouseMove(cell)
    /\ IF cell # None /\ startDateRef # None THEN Render ELSE NoRender
    /\ toast' = "none"
    /\ intent' = "none" /\ confirmAnswer' = "none"

\* mousemove while resize listeners are installed
ResizeMove ==
  \E clientX \in PointerXs :
    /\ UNCHANGED <<envVars, nextId, cellWidthRef, selectionVars, modalVars, overlayVars, dndVars,
                   resizeListeners, resizeStartPos, isResizing, buttonVars>>
    /\ resizeListeners # <<>>
    /\ LET st == resizeDeliverMove(Store, resizeListeners, resizeStartPos, clientX)
       IN /\ tasks' = st.tasks
          /\ storage' = st.storage
          /\ TaskDatesInRange(st.tasks)
    /\ IF \E i \in 1..Len(resizeListeners) :
            /\ resizeMoveRuns(resizeListeners[i], resizeStartPos)
            /\ resizeListeners[i].task.id \in TaskIds
       THEN Render /\ intent' = "resize" /\ confirmAnswer' = "none"
       ELSE NoRender /\ intent' = "none" /\ confirmAnswer' = "none"
    /\ lastClientX' = Some(clientX)
    /\ toast' = "none"

\* mousemove while the MouseSensor is armed or dragging
DndMove ==
  \E delta \in DndDeltas :
    /\ UNCHANGED <<envVars, storeVars, cellWidthRef, selectionVars, modalVars, dndActive, dndTarget,
                   resizeVars, buttonVars>>
    /\ dndPhase # "idle"
    /\ dndDelta' = delta
    /\ dndPeak' = IF Dist2(delta) > dndPeak THEN Dist2(delta) ELSE dndPeak
    /\ IF dndPhase = "armed" /\ hasExceededDistance(delta)
       THEN /\ dndPhase' = "dragging"
            /\ handleDragStart(TaskById(dndActive))
            /\ Render
       ELSE /\ UNCHANGED <<dndPhase, overlayVars>>
            /\ NoRender
    /\ toast' = "none"
    /\ intent' = "none" /\ confirmAnswer' = "none"

PointerMove == SelectionMove \/ ResizeMove \/ DndMove

\* one of the held buttons is released
ReleaseButton ==
  IF secondDown
  THEN secondDown' = FALSE /\ UNCHANGED buttonDown
  ELSE buttonDown' = FALSE /\ UNCHANGED secondDown

\* mouseup while the selection listeners are installed
PointerUpSelection ==
  /\ UNCHANGED <<envVars, storeVars, cellWidthRef, overlayVars, dndVars, resizeVars>>
  /\ buttonDown /\ selectionListeners > 0
  /\ ReleaseButton
  /\ handleMouseUp
  /\ Render
  /\ toast' = "none"
  /\ intent' = "none" /\ confirmAnswer' = "none"

\* mouseup while resize listeners are installed: every closure's handleMouseUp
PointerUpResize ==
  /\ buttonDown /\ resizeListeners # <<>>
  /\ ReleaseButton
  /\ toast' = IF \E i \in 1..Len(resizeListeners) : resizeListeners[i].isResizing
              THEN "updated" ELSE "none"
  /\ intent' = "none" /\ confirmAnswer' = "none"
  /\ isResizing' = FALSE
  /\ resizeStartPos' = None
  /\ resizeListeners' = <<>>
  /\ lastClientX' = None
  /\ NoRender
  /\ UNCHANGED <<envVars, storeVars, cellWidthRef, selectionVars, modalVars, overlayVars, dndVars>>

\* the state the sensor returns to when the pointer is released
SensorReset ==
  /\ dndPhase' = "idle"
  /\ dndActive' = 0
  /\ dndTarget' = "none"
  /\ dndDelta' = <<0, 0>>
  /\ dndPeak' = 0

\* mouseup of an activated drag: DndContext calls onDragEnd
PointerUpDrag ==
  \E over \in Overs :
    /\ UNCHANGED <<envVars, nextId, cellWidthRef, selectionVars, modalVars, resizeVars>>
    /\ buttonDown /\ dndPhase = "dragging"
    /\ ReleaseButton
    /\ handleDragEnd(over, dndDelta,
                     IF dndActive \in TaskIds THEN Some(TaskById(dndActive)) ELSE None)
    /\ TaskDatesInRange(tasks')
    /\ IF draggedTask' # draggedTask \/ toast' = "updated" THEN Render ELSE NoRender
    /\ SensorReset

\* mouseup before the sensor activated: no drag event; the browser delivers a
\* click to the element under the pointer (onTarget: still the element of mousedown)
PointerUpClick ==
  \E confirm \in BOOLEAN, onTarget \in BOOLEAN :
    /\ UNCHANGED <<envVars, nextId, cellWidthRef, selectionVars, overlayVars, resizeVars>>
    /\ buttonDown /\ dndPhase = "armed"
    /\ dndDelta = <<0, 0>> => onTarget
    /\ ReleaseButton
    /\ IF onTarget /\ dndTarget = "edit" /\ dndActive \in TaskIds
       THEN /\ handleEditTask(TaskById(dndActive))
            /\ Render
            /\ toast' = "none"
            /\ intent' = "none" /\ confirmAnswer' = "none"
            /\ UNCHANGED <<tasks, storage>>
       ELSE IF onTarget /\ dndTarget = "delete"
       THEN /\ handleDeleteTask(dndActive, confirm)
            /\ IF confirm THEN Render ELSE NoRender
            /\ UNCHANGED modalVars
       ELSE /\ NoRender
            /\ toast' = "none"
            /\ intent' = "none" /\ confirmAnswer' = "none"
            /\ UNCHANGED <<tasks, storage, modalVars>>
    /\ SensorReset

\* mouseup with no gesture listening
PointerUpIdle ==
  /\ buttonDown /\ selectionListeners = 0 /\ resizeListeners = <<>> /\ dndPhase = "idle"
  /\ ReleaseButton
  /\ NoRender
  /\ toast' = "none"
  /\ intent' = "none" /\ confirmAnswer' = "none"
  /\ UNCHANGED <<envVars, storeVars, cellWidthRef, selectionVars, modalVars, overlayVars, dndVars,
                 resizeVars>>

PointerUp == PointerUpSelection \/ PointerUpResize \/ PointerUpDrag \/ PointerUpClick
             \/ PointerUpIdle

\* the pointer leaves the calendar container: onMouseLeave={handleMouseUp}; with
\* no selection in progress handleMouseUp returns at once and the step changes
\* nothing
MouseLeave ==
  IF isDragging
  THEN /\ UNCHANGED <<envVars, storeVars, cellWidthRef, overlayVars, dndVars, resizeVars,
                      buttonVars>>
       /\ handleMouseUp
       /\ Render
       /\ toast' = "none"
       /\ intent' = "none" /\ confirmAnswer' = "none"
  ELSE UNCHANGED vars

\* TaskModal.handleSubmit with taskName and category as the form holds them
DialogSave ==
  \E taskName \in TypedNames, category \in CategoryChoices :
    /\ UNCHANGED <<envVars, cellWidthRef, selectionVars, overlayVars, dndVars, resizeVars, buttonVars>>
    /\ isModalOpen /\ modalData # None
    /\ IF trim(taskName) = <<>>
       THEN /\ UNCHANGED <<storeVars, modalVars>>
            /\ NoRender
            /\ toast' = "none"
            /\ intent' = "none" /\ confirmAnswer' = "none"
       ELSE /\ onSave([name |-> trim(taskName), category |-> category,
                       startDate |-> modalData[1].startDate,
                       endDate |-> modalData[1].endDate])
            /\ Render

\* the dialog's Cancel button, Escape or a click outside it: onClose
DialogClose ==
  /\ UNCHANGED <<envVars, storeVars, cellWidthRef, selectionVars, overlayVars, dndVars, resizeVars,
                 buttonVars>>
  /\ isModalOpen /\ modalData # None
  /\ onClose
  /\ Render
  /\ toast' = "none"
  /\ intent' = "none" /\ confirmAnswer' = "none"

Next ==
  \/ UpdateCellWidth
  \/ PointerDownCell
  \/ PointerDownTask
  \/ PointerDownHandle
  \/ PointerDownHandleAgain
  \/ PointerMove
  \/ PointerUp
  \/ MouseLeave
  \/ DialogSave
  \/ DialogClose

Spec == Init /\ [][Next]_vars

\* The same gestures, and the second mousedown landing on the other handle
TwoHandleNext == Next \/ PointerDownOtherHandle

TwoHandleSpec == Init /\ [][TwoHandleNext]_vars

\* =================================================================
\* The task slice on its own: the reducers applied to dispatched actions
\* =================================================================
\* ids of the tasks and payloads, the dates and names they carry
StoreIds == 1..(MaxId + 2)
StoreDates == {<<0, 0>>, <<0, MaxDay>>, <<MaxDay, MaxDay>>}
StoreNames == {<<"a">>, <<"b">>}
StorePayloads ==
  {Task(id, name, "To Do", d[1], d[2]) : id \in StoreIds, name \in StoreNames, d \in StoreDates}

uiStateVars == <<cellWidthRef, cellWidth, selectionVars, modalVars, overlayVars, dndVars,
                 resizeVars, selectionListeners, buttonVars>>
uiVars == <<envVars, uiStateVars, toast, intent, confirmAnswer>>

StoreInit ==
  /\ dstStart \in DstStarts
  /\ currentDate = FirstOfCalendar
  /\ filters = initialFilters
  /\ storage \in StoredValues \cup {Some(Unparsable)}
  /\ tasks = loadInitialState(storage)
  /\ nextId = 1
  /\ UiInit

\* dispatch(addTask(payload)): crypto.randomUUID gives an id no task has
DispatchAddTask ==
  \E payload \in StorePayloads :
    /\ payload.id \notin TaskIds
    /\ Len(tasks) <= MaxId
    /\ tasks' = addTask(Store, payload, payload.id).tasks
    /\ storage' = addTask(Store, payload, payload.id).storage
    /\ UNCHANGED <<nextId, uiVars>>

\* dispatch(updateTask(payload))
DispatchUpdateTask ==
  \E payload \in StorePayloads :
    /\ tasks' = updateTask(Store, payload).tasks
    /\ storage' = updateTask(Store, payload).storage
    /\ UNCHANGED <<nextId, uiVars>>

\* dispatch(deleteTask(id))
DispatchDeleteTask ==
  \E id \in StoreIds :
    /\ tasks' = deleteTask(Store, id).tasks
    /\ storage' = deleteTask(Store, id).storage
    /\ UNCHANGED <<nextId, uiVars>>

StoreNext == DispatchAddTask \/ DispatchUpdateTask \/ DispatchDeleteTask

StoreSpec == StoreInit /\ [][StoreNext]_vars

\* =================================================================
\* The month grid on its own: the page opened on some day, a task created,
\* moved and deleted, and what Calendar renders for it
\* =================================================================
\* the days the page is opened on: the 10th of every month of the calendar
GridTodays == {MonthFirsts[i] + 9 : i \in 1..Len(MonthLengths)}
\* endDate - startDate of the tasks created
GridSpans == {0, 1, 7, 14}
\* a task stored while an earlier month was shown: it begins before the grid
StoredEarlier(today) ==
  LET calendarStart == startOfWeek(startOfMonth(today))
  IN saveTasksToStorage(<<Task(1, <<"a">>, "In Progress", calendarStart - 2, calendarStart + 1)>>)

GridInit ==
  /\ dstStart = 0 - 1
  /\ currentDate \in GridTodays
  /\ filters = initialFilters
  /\ storage \in {None, StoredEarlier(currentDate)}
  /\ tasks = loadInitialState(storage)
  /\ nextId = 1
  /\ UiInit

\* a selection over grid cells saved in the dialog: dispatch(addTask(...))
GridCreateTask ==
  \E startDate \in gridDates, span \in GridSpans :
    LET payload == Task(1, <<"a">>, "To Do", startDate, startDate + span)
    IN /\ tasks = <<>>
       /\ payload.endDate \in gridDates
       /\ tasks' = addTask(Store, payload, payload.id).tasks
       /\ storage' = addTask(Store, payload, payload.id).storage
       /\ UNCHANGED <<nextId, uiVars>>

\* a task dropped on a grid cell: dispatch(updateTask(...)) of handleDragEnd
GridMoveTask ==
  \E targetDate \in gridDates :
    /\ tasks # <<>>
    /\ movedTask(tasks[1], targetDate).endDate \in CalendarDays
    /\ tasks' = updateTask(Store, movedTask(tasks[1], targetDate)).tasks
    /\ storage' = updateTask(Store, movedTask(tasks[1], targetDate)).storage
    /\ UNCHANGED <<nextId, uiVars>>

\* the task deleted: dispatch(deleteTask(id))
GridDeleteTask ==
  /\ tasks # <<>>
  /\ tasks' = deleteTask(Store, tasks[1].id).tasks
  /\ storage' = deleteTask(Store, tasks[1].id).storage
  /\ UNCHANGED <<nextId, uiVars>>

GridNext == GridCreateTask \/ GridMoveTask \/ GridDeleteTask

GridSpec == GridInit /\ [][GridNext]_vars

\* =================================================================
\* The filter panel: a stored task list and the filters the panel dispatches
\* =================================================================
\* the task lists found in storage: the same four tasks in two orders
PanelTasks ==
  LET A == Task(1, <<"A", "b">>, "To Do", 12, 14)
      B == Task(2, <<"b">>, "Review", 14, 15)
      C == Task(3, <<"a">>, "To Do", 2, 3)
      D == Task(4, <<"B", "a">>, "Completed", 10, 25)
  IN {<<A, B, C, D>>, <<D, C, B, A>>}
\* the checkboxes toggled, the radio buttons picked and the queries typed
PanelCategories == {"To Do", "Review"}
PanelTimeRanges == {None, Some(1), Some(2)}
PanelQueries == {<<>>, <<"a">>, <<"B">>, <<"a", "b">>}

PanelInit ==
  /\ dstStart = 0 - 1
  /\ currentDate = FirstOfCalendar + 9
  /\ filters = initialFilters
  /\ \E ts \in PanelTasks : storage = saveTasksToStorage(ts)
  /\ tasks = loadInitialState(storage)
  /\ nextId = Len(tasks) + 1
  /\ UiInit

\* FilterPanel.toggleCategory(category)
ToggleCategory ==
  \E category \in PanelCategories :
    LET other(c) == c # category
        newCategories == IF arrayIncludes(filters.categories, category)
                         THEN SelectSeq(filters.categories, other)
                         ELSE Append(filters.categories, category)
    IN /\ filters' = updateFilters(filters, [k \in {"categories"} |-> newCategories])
       /\ UNCHANGED <<dstStart, currentDate, storeVars, uiStateVars, toast, intent, confirmAnswer>>

\* the search input's onChange
SetSearchQuery ==
  \E query \in PanelQueries :
    /\ filters' = updateFilters(filters, [k \in {"searchQuery"} |-> query])
    /\ UNCHANGED <<dstStart, currentDate, storeVars, uiStateVars, toast, intent, confirmAnswer>>

\* a time range radio button's onChange
SetTimeRange ==
  \E value \in PanelTimeRanges :
    /\ filters' = updateFilters(filters, [k \in {"timeRange"} |-> value])
    /\ UNCHANGED <<dstStart, currentDate, storeVars, uiStateVars, toast, intent, confirmAnswer>>

PanelNext == ToggleCategory \/ SetSearchQuery \/ SetTimeRange

PanelSpec == PanelInit /\ [][PanelNext]_vars

\* ------------------------------------------------------ type sanity
\* at most one gesture has listeners installed
LiveHandlersExclusive ==
  Cardinality({g \in {"selection", "resize", "dnd"} :
                 \/ g = "selection" /\ isDragging
                 \/ g = "resize" /\ resizeListeners # <<>>
                 \/ g = "dnd" /\ dndPhase # "idle"}) <= 1

\* =================================================================
\* Properties
\* =================================================================
TaskIn(ts, id) == ts[findIndex(ts, id)]
ActivationDistance2 == ActivationDistance * ActivationDistance

\* the candidate date a resize closure computes for a mousemove at clientX, and
\* whether its range check turns the candidate down
ResizeCandidate(L, startPos, clientX) ==
  addDays(startPos.date, MathRound(clientX - startPos.x, L.cellWidth))
ResizeRejects(L, startPos, clientX) ==
  IF L.edge = "left"
  THEN ResizeCandidate(L, startPos, clientX) >= L.task.endDate
  ELSE ResizeCandidate(L, startPos, clientX) <= L.task.startDate

\* C1: in every reachable state every task of the store has startDate <= endDate.
C1_StartNotAfterEnd ==
  \A i \in 1..Len(tasks) : tasks[i].startDate <= tasks[i].endDate

\* a task created through the dialog from a one-cell selection (a single day), whose
\* dates a resize has then changed
C1_Witness ==
  \E i \in 1..Len(resizeListeners) :
    LET L == resizeListeners[i]
    IN /\ lastClientX # None
       /\ L.task.name = <<"b">>
       /\ L.task.startDate = L.task.endDate
       /\ L.task.id \in TaskIds
       /\ TaskById(L.task.id).startDate # TaskById(L.task.id).endDate

\* C2 (as claimed): after every pointer-move of a left-handle resize, the task's
\* startDate is at most endDate - 1 day, also for a task with startDate = endDate.
C2_StartBeforeEnd_AnyTask ==
  \A i \in 1..Len(resizeListeners) :
    LET L == resizeListeners[i]
    IN (L.edge = "left" /\ L.cellWidth # 0 /\ lastClientX # None /\ L.task.id \in TaskIds)
       => TaskById(L.task.id).startDate <= TaskById(L.task.id).endDate - 1

\* C2 (amended): after every pointer-move of a left-handle resize of a task that had
\* startDate < endDate at pointer-down, startDate is at most endDate - 1 day; a task
\* that had startDate = endDate either gets there or is as it was at pointer-down.
C2_StartBeforeEnd ==
  \A i \in 1..Len(resizeListeners) :
    LET L == resizeListeners[i]
    IN (L.edge = "left" /\ lastClientX # None /\ L.task.id \in TaskIds)
       => \/ TaskById(L.task.id).startDate <= TaskById(L.task.id).endDate - 1
          \/ /\ L.task.startDate = L.task.endDate
             /\ TaskById(L.task.id) = L.task

\* a left-handle move was accepted: the start date differs from the one at pointer-down
C2_Witness ==
  \E i \in 1..Len(resizeListeners) :
    LET L == resizeListeners[i]
    IN /\ L.edge = "left" /\ lastClientX # None /\ L.task.id \in TaskIds
       /\ L.task.startDate < L.task.endDate
       /\ TaskById(L.task.id).startDate # L.task.startDate

\* C3: a pointer-move of a resize whose candidate is rejected changes nothing in the
\* store: the task keeps the dates of the last accepted candidate.
C3_RejectedKeepsLastValid ==
  [][(/\ resizeListeners # <<>>
      /\ resizeListeners' = resizeListeners
      /\ lastClientX' # None
      /\ \A i \in 1..Len(resizeListeners) :
           /\ resizeListeners[i].cellWidth # 0
           /\ ResizeRejects(resizeListeners[i], resizeStartPos[1], lastClientX'[1]))
     => tasks' = tasks]_vars

\* C4: the right edge of a 3-day task dragged left by 4 cell widths: startDate is
\* unchanged and endDate is startDate + 1 day.
C4_RightEdgeClamps ==
  \A i \in 1..Len(resizeListeners) :
    LET L == resizeListeners[i]
    IN (/\ L.edge = "right"
        /\ L.cellWidth # 0
        /\ L.task.endDate - L.task.startDate = 2
        /\ L.task.id \in TaskIds
        /\ lastClientX = Some(resizeStartPos[1].x - 4 * L.cellWidth))
       => /\ TaskById(L.task.id).startDate = L.task.startDate
          /\ TaskById(L.task.id).endDate = L.task.startDate + 1

\* C5: a committed move keeps the task's duration (endDate - startDate in whole
\* days), id, name and category, and the number of tasks.
C5_MovePreservesDuration ==
  [][(dndPhase = "dragging" /\ intent' = "move")
     => LET old == TaskIn(tasks, dndActive)
            new == TaskIn(tasks', dndActive)
        IN /\ new.endDate - new.startDate = old.endDate - old.startDate
           /\ new.id = old.id
           /\ new.name = old.name
           /\ new.category = old.category
           /\ Len(tasks') = Len(tasks)]_vars

\* C6 (as claimed): while the measured cell width is 0, no event of a move or resize
\* gesture changes a task.
C6_NoChangeWhileUnmeasured ==
  [][(cellWidthRef = 0 /\ (dndPhase = "dragging" \/ resizeListeners # <<>>))
     => tasks' = tasks]_vars

\* C6 (amended): while the cell width a resize gesture holds (the cellWidth prop of
\* the render in which the pointer went down) is 0, no event changes a task.
C6_NoResizeWithZeroWidth ==
  [][(resizeListeners # <<>>
      /\ \A i \in 1..Len(resizeListeners) : resizeListeners[i].cellWidth = 0)
     => tasks' = tasks]_vars

\* a resize gesture that holds width 0 got a mousemove away from its origin, after
\* a non-zero width was measured
C6_Witness ==
  /\ resizeListeners # <<>>
  /\ \A i \in 1..Len(resizeListeners) : resizeListeners[i].cellWidth = 0
  /\ lastClientX # None
  /\ lastClientX[1] # resizeStartPos[1].x
  /\ cellWidthRef # 0

\* C7: from pointer-down on a task body to pointer-up, while the pointer never got
\* further than the activation distance, no event changes the store.
C7_SubThresholdNoMutation ==
  [][(/\ dndActive # 0
      /\ dndTarget = "body"
      /\ dndPeak <= ActivationDistance2
      /\ dndPeak' <= ActivationDistance2)
     => (tasks' = tasks /\ storage' = storage /\ intent' = "none")]_vars

\* the pointer is down on a task body and has moved, below the activation distance
C7_Witness ==
  /\ dndPhase = "armed"
  /\ dndTarget = "body"
  /\ dndPeak > 0
  /\ dndPeak <= ActivationDistance2

\* C8 (as claimed): pointer-up on a task body before the sensor activated opens the
\* edit dialog for that task.
C8_BodyClickOpensEdit ==
  [][(buttonDown /\ ~buttonDown' /\ dndPhase = "armed" /\ dndTarget = "body")
     => (isModalOpen' /\ editingTask' = Some(TaskById(dndActive)))]_vars

\* C8 (amended): pointer-up before the sensor activated opens the edit dialog for
\* the task when the pointer went down and up on its edit button (always so when it
\* did not move); on any other part of the task item it opens nothing.
C8_EditButtonClickOpensEdit ==
  [][(buttonDown /\ ~buttonDown' /\ dndPhase = "armed" /\ dndActive \in TaskIds)
     => LET task == TaskById(dndActive)
            opened ==
              /\ isModalOpen'
              /\ editingTask' = Some(task)
              /\ modalData' = Some([startDate |-> task.startDate,
                                    endDate |-> task.endDate])
        IN IF dndTarget = "edit"
           THEN opened \/ (dndDelta # <<0, 0>> /\ UNCHANGED modalVars)
           ELSE UNCHANGED modalVars]_vars

\* the edit dialog is open for a task of the store
C8_Witness ==
  /\ isModalOpen
  /\ editingTask # None
  /\ editingTask[1].id \in TaskIds

\* C9: while the pointer is down on a task item (sensor armed or dragging) or on a
\* resize handle, the selection gesture is idle: no anchor, nothing highlighted.
C9_NoSelectionOnTask ==
  (dndPhase # "idle" \/ resizeListeners # <<>>)
  => (~isDragging /\ startDateRef = None /\ selectedDates = {})

\* pointer moves followed a pointer-down on a task item
C9_Witness ==
  /\ dndPhase = "dragging"
  /\ dndDelta # <<0, 0>>
  /\ ~isDragging

\* C10: at most one of the selection gesture (isDragging), the move gesture
\* (draggedTask set) and a resize gesture (listeners installed) is active.
C10_OneGestureActive ==
  Cardinality({g \in {"selection", "move", "resize"} :
                 \/ g = "selection" /\ isDragging
                 \/ g = "move" /\ draggedTask # None
                 \/ g = "resize" /\ resizeListeners # <<>>}) <= 1

\* C11: while Selecting, a pointer-up or the pointer leaving the grid commits once:
\* the dialog opens for a new task with (startDate, endDate) = (min, max) of the
\* anchor and the last cell visited, the highlighted set is emptied, the anchor is
\* cleared and the gesture is idle; a gesture-end event that follows commits nothing.
C11_SelectionCommit ==
  [][/\ (isDragging /\ (PointerUpSelection \/ MouseLeave))
        => /\ startDateRef # None /\ lastCell # None
           /\ LET a == startDateRef[1]
                  c == lastCell[1]
              IN modalData' = Some([startDate |-> IF a < c THEN a ELSE c,
                                    endDate |-> IF a < c THEN c ELSE a])
           /\ isModalOpen'
           /\ editingTask' = None
           /\ selectedDates' = {}
           /\ startDateRef' = None
           /\ ~isDragging'
     /\ (~isDragging /\ modalVars' # modalVars) => ~(PointerUpIdle \/ MouseLeave)]_vars

\* the pointer left the grid with the button held, after a selection dragged over
\* more than one day: the dialog is open for a new task with that range
C11_Witness ==
  /\ buttonDown /\ isModalOpen /\ editingTask = None
  /\ modalData # None
  /\ modalData[1].startDate < modalData[1].endDate

\* C12: while the selection gesture is idle none of its window listeners is
\* installed, while the resize gesture is idle none of its window listeners is
\* installed, and neither gesture ever has more than one copy of its listeners.
C12_ListenersOnlyWhileActive ==
  /\ ~isDragging => selectionListeners = 0
  /\ (~isResizing /\ resizeStartPos = None) => resizeListeners = <<>>
  /\ selectionListeners <= 1
  /\ Len(resizeListeners) <= 1

\* C13: updateTask replaces exactly the task whose id is the payload's, in place, and
\* leaves every other task as it is; with an id no task has, updateTask and
\* deleteTask leave the task list as it is.
C13_UpdateReplacesById ==
  /\ \A payload \in StorePayloads :
       LET ts == updateTask(Store, payload).tasks
       IN /\ Len(ts) = Len(tasks)
          /\ \A i \in 1..Len(tasks) :
               ts[i] = IF tasks[i].id = payload.id THEN payload ELSE tasks[i]
          /\ payload.id \notin TaskIds => ts = tasks
  /\ \A id \in StoreIds \ TaskIds : deleteTask(Store, id).tasks = tasks

\* two tasks, the second of which an update has replaced in place (its name was "a"
\* when it was added after the first), while there is an id no task has
C13_Witness ==
  /\ Len(tasks) = 2
  /\ tasks[1].id = 2 /\ tasks[1].name = <<"a">>
  /\ tasks[2].id = 1 /\ tasks[2].name = <<"b">> /\ tasks[2].startDate # tasks[2].endDate
  /\ StoreIds \ TaskIds # {}

\* ------------------------------------------------------------------
\* the week rows of the grid: the grid-cols-7 layout wraps the cells by seven
GridFirst == getMonthDays(currentDate)[1].date
RowOf(date) == (date - GridFirst) \div 7
RowFirst(row) == GridFirst + 7 * row
TaskDays(task) == task.startDate..task.endDate
\* the segments of a task: the TaskItems rendered for it
ItemsOf(task) == {item \in renderedItems : item.id = task.id}
RowsOf(task) == {RowOf(d) : d \in TaskDays(task) \cap gridDates}
RECURSIVE SumOfWidths(_)
SumOfWidths(items) ==
  IF items = {} THEN 0
  ELSE LET item == CHOOSE x \in items : TRUE
       IN item.daysWidth + SumOfWidths(items \ {item})
\* one segment per row the task meets, anchored at the later of the task's start
\* and the row's first day, and lying within that row
OneItemPerRow(task) ==
  LET items == ItemsOf(task)
      rows == RowsOf(task)
  IN /\ Cardinality(items) = Cardinality(rows)
     /\ \A row \in rows :
          \E item \in items :
            item.date = IF task.startDate > RowFirst(row) THEN task.startDate ELSE RowFirst(row)
     /\ \A item \in items :
          /\ item.daysWidth >= 1
          /\ RowOf(item.date + item.daysWidth - 1) = RowOf(item.date)

\* C14 (as stated): every task spanning N week rows of the grid gets exactly N
\* segments, one per row, anchored at the later of its start and the row's first
\* day and within the row; their widths sum to the task's inclusive day count;
\* a one-day task gets exactly one segment of width 1.
C14_SegmentsCoverTask ==
  \A i \in 1..Len(tasks) :
    LET task == tasks[i]
    IN /\ OneItemPerRow(task)
       /\ SumOfWidths(ItemsOf(task)) = task.endDate - task.startDate + 1
       /\ task.startDate = task.endDate
            => ItemsOf(task) = {[id |-> task.id, date |-> task.startDate, daysWidth |-> 1]}

\* C14 (amended): the same, with the widths summing to the number of the task's
\* days that are days of the grid, and the one segment of a one-day task
\* promised when its day is a day of the grid.
C14_SegmentsCoverTaskInGrid ==
  \A i \in 1..Len(tasks) :
    LET task == tasks[i]
    IN /\ OneItemPerRow(task)
       /\ SumOfWidths(ItemsOf(task)) = Cardinality(TaskDays(task) \cap gridDates)
       /\ (task.startDate = task.endDate /\ task.startDate \in gridDates)
            => ItemsOf(task) = {[id |-> task.id, date |-> task.startDate, daysWidth |-> 1]}

\* a task within the grid that meets three week rows and is rendered as three
\* segments whose widths sum to its 15 days
C14_Witness ==
  \E i \in 1..Len(tasks) :
    /\ TaskDays(tasks[i]) \subseteq gridDates
    /\ Cardinality(RowsOf(tasks[i])) = 3
    /\ Cardinality(ItemsOf(tasks[i])) = 3
    /\ SumOfWidths(ItemsOf(tasks[i])) = 15

\* ------------------------------------------------------------------
\* the last day of the week row a day is in
RowLast(date) == GridFirst + 7 * RowOf(date) + 6

\* C15: every segment of every task has width min(days from its anchor to the end
\* of the anchor's week row, days from its anchor to the task's endDate), both
\* counted inclusively; so the width is in 1..7 and the segment ends neither
\* after its row's last day nor after the task's endDate.
C15_WidthClippedToRowAndTask ==
  \A i \in 1..Len(tasks) :
    \A item \in ItemsOf(tasks[i]) :
      LET toRowEnd == RowLast(item.date) - item.date + 1
          toTaskEnd == tasks[i].endDate - item.date + 1
          lastDay == item.date + item.daysWidth - 1
      IN /\ item.daysWidth = (IF toRowEnd < toTaskEnd THEN toRowEnd ELSE toTaskEnd)
         /\ 1 <= item.daysWidth /\ item.daysWidth <= 7
         /\ lastDay <= RowLast(item.date)
         /\ lastDay <= tasks[i].endDate

\* a task with a segment cut at the end of its row (in mid-week, the task going
\* on) and a segment cut at the task's end (before the row's end)
C15_Witness ==
  \E i \in 1..Len(tasks) :
    \E a, b \in ItemsOf(tasks[i]) :
      /\ a.date = tasks[i].startDate /\ getDay(a.date) = 3
      /\ a.daysWidth = 4 /\ tasks[i].endDate > RowLast(a.date)
      /\ b.date > a.date /\ b.daysWidth = 4 /\ b.date + 3 = tasks[i].endDate

\* ------------------------------------------------------------------
\* getMonthDays of the day the page was opened on, the month of that day
MonthGrid == getMonthDays(currentDate)
MonthDates == {d \in CalendarDays : monthOf(d) = monthOf(currentDate)}

\* C16: for every month, getMonthDays returns consecutive days whose count is a
\* multiple of 7, from the Sunday on or before the month's first day to the
\* Saturday on or after its last day; every day of the month is among them and
\* isCurrentMonth is true exactly for the days of the month.  (March 2024, days
\* 33..63: Feb 25 .. Apr 6, 42 cells.)
C16_MonthGridShape ==
  LET grid == MonthGrid
      month == MonthDates
      n == Len(grid)
      first == grid[1].date
      last == grid[n].date
      monthFirstDay == CHOOSE d \in month : \A e \in month : d <= e
      monthLastDay == CHOOSE d \in month : \A e \in month : e <= d
  IN /\ n % 7 = 0
     /\ \A i \in 1..(n - 1) : grid[i + 1].date = grid[i].date + 1
     /\ first % 7 = 0 /\ first <= monthFirstDay /\ monthFirstDay - first < 7
     /\ last % 7 = 6 /\ monthLastDay <= last /\ last - monthLastDay < 7
     /\ month \subseteq {grid[i].date : i \in 1..n}
     /\ \A i \in 1..n : grid[i].isCurrentMonth <=> grid[i].date \in month
     /\ currentDate \in 33..63 => (first = 28 /\ last = 69 /\ n = 42)

\* the grid of March 2024 computed: 42 cells, Feb 25 and Apr 6 outside the month
C16_Witness ==
  /\ currentDate \in 33..63
  /\ Len(MonthGrid) = 42
  /\ ~MonthGrid[1].isCurrentMonth /\ MonthGrid[6].isCurrentMonth
  /\ MonthGrid[36].isCurrentMonth /\ ~MonthGrid[37].isCurrentMonth

\* ------------------------------------------------------------------
\* the task of 2024-03-10 .. 2024-03-17 (days 42 and 49, both Sundays), shown
\* in the grid of March 2024
SundayToSunday(task) == task.startDate = 42 /\ task.endDate = 49 /\ currentDate \in 33..63

\* C17 (as stated): that task yields exactly two segments, one anchored at
\* 2024-03-10 with width 5 and one anchored at 2024-03-17 with width 1.
C17_SundayTaskWidth5 ==
  \A i \in 1..Len(tasks) :
    SundayToSunday(tasks[i])
      => ItemsOf(tasks[i]) = {[id |-> tasks[i].id, date |-> 42, daysWidth |-> 5],
                              [id |-> tasks[i].id, date |-> 49, daysWidth |-> 1]}

\* C17 (amended): that task yields exactly two segments, one anchored at
\* 2024-03-10 with width 7 (the whole week row) and one anchored at 2024-03-17
\* with width 1.
C17_SundayTaskWidth7 ==
  \A i \in 1..Len(tasks) :
    SundayToSunday(tasks[i])
      => ItemsOf(tasks[i]) = {[id |-> tasks[i].id, date |-> 42, daysWidth |-> 7],
                              [id |-> tasks[i].id, date |-> 49, daysWidth |-> 1]}

\* that task exists while March 2024 is shown, and two segments are rendered for it
C17_Witness ==
  \E i \in 1..Len(tasks) :
    SundayToSunday(tasks[i]) /\ Cardinality(ItemsOf(tasks[i])) = 2

\* ------------------------------------------------------------------
\* C18: while a selection is in progress the highlighted set is exactly the days
\* from min(anchor, current cell) to max(anchor, current cell), the current cell
\* being the last day cell the pointer was over (the anchor before any move); it
\* contains the anchor, and a move over a point that is no day cell (the last
\* cell stays what it was) leaves it unchanged.
C18_HighlightIsRange ==
  /\ [](isDragging =>
          /\ startDateRef # None /\ lastCell # None
          /\ LET a == startDateRef[1]
                 c == lastCell[1]
             IN selectedDates = {format(d) : d \in (IF a < c THEN a ELSE c)..(IF a < c THEN c ELSE a)}
          /\ format(startDateRef[1]) \in selectedDates)
  /\ [][(isDragging /\ SelectionMove /\ lastCell' = lastCell)
          => (selectedDates' = selectedDates /\ isDragging')]_vars

\* a selection dragged backwards: the pointer is over a cell before the anchor
\* and more than one day is highlighted
C18_Witness ==
  /\ isDragging /\ startDateRef # None /\ lastCell # None
  /\ lastCell[1] < startDateRef[1]
  /\ Cardinality(selectedDates) = startDateRef[1] - lastCell[1] + 1

\* ------------------------------------------------------------------
\* the start and end date of the task of that id are the same in both task lists
SameDates(ts1, ts2, id) ==
  \A i \in 1..Len(ts1), j \in 1..Len(ts2) :
    (ts1[i].id = id /\ ts2[j].id = id)
      => (ts1[i].startDate = ts2[j].startDate /\ ts1[i].endDate = ts2[j].endDate)

\* C19: a drag gesture that leaves the task with the dates it had at pointer-down
\* dispatches no update, emits no "task updated" notification and leaves the task
\* untouched: a drop of a move that changes no date, and a resize mousemove that
\* changes no date of the task the handle was pressed on.
C19_NoDisplacementNoUpdate ==
  /\ [][(PointerUpDrag /\ dndActive \in TaskIds /\ SameDates(tasks, tasks', dndActive))
          => (intent' = "none" /\ toast' # "updated" /\ tasks' = tasks /\ storage' = storage)]_vars
  /\ [][(ResizeMove /\ \A i \in 1..Len(resizeListeners) :
                         SameDates(<<resizeListeners[i].task>>, tasks', resizeListeners[i].task.id))
          => (intent' = "none" /\ tasks' = tasks /\ storage' = storage)]_vars

\* C20: after every drag-end event of a move gesture (drop committed, drop with
\* no target, drop on a target that is no cell, displacement too small) the drag
\* session is discarded: draggedTask and dragPosition are null (no overlay).
C20_DragEndDiscardsSession ==
  [][PointerUpDrag => (draggedTask' = None /\ dragPosition' = None)]_vars

\* ------------------------------------------------------------------
\* C21: every completed user action that changes the task store emits the
\* matching notification: "created" for a dialog save of a new task, "deleted"
\* for a confirmed delete, "updated" for a dialog save of an edit, for a
\* committed move and for a resize gesture (one that changed the task) ended by
\* pointer-up.
C21_MutationsNotify ==
  [][/\ (DialogSave /\ tasks' # tasks /\ editingTask = None) => toast' = "created"
     /\ (DialogSave /\ tasks' # tasks /\ editingTask # None) => toast' = "updated"
     /\ (PointerUpClick /\ tasks' # tasks) => toast' = "deleted"
     /\ (PointerUpDrag /\ tasks' # tasks) => toast' = "updated"
     /\ (PointerUpResize /\ \E i \in 1..Len(resizeListeners) :
                              /\ resizeListeners[i].task.id \in TaskIds
                              /\ TaskById(resizeListeners[i].task.id) # resizeListeners[i].task)
          => toast' = "updated"]_vars

\* ------------------------------------------------------------------
\* C22: the task's dates in the store after a resize pointer-move are a function
\* of the task snapshot of the closure that dispatched last, the origin x, the cell
\* width and that move's x alone (so moves dropped or added in between change
\* nothing); the range a
\* selection commits is a function of the anchor and the last cell visited alone.
C22_OnlyLatestPositionMatters ==
  /\ [][(resizeListeners # <<>> /\ lastClientX' # None /\ intent' = "resize") =>
          \A i \in 1..Len(resizeListeners) :
            LET L == resizeListeners[i]
                x == lastClientX'[1]
                laterOnes == {j \in (i + 1)..Len(resizeListeners) :
                                /\ resizeListeners[j].task.id = L.task.id
                                /\ resizeMoveRuns(resizeListeners[j], resizeStartPos)}
            IN (resizeMoveRuns(L, resizeStartPos) /\ L.task.id \in TaskIds /\ laterOnes = {})
                 => LET rejected == ResizeRejects(L, resizeStartPos[1], x)
                        candidate == ResizeCandidate(L, resizeStartPos[1], x)
                        after == TaskIn(tasks', L.task.id)
                    IN /\ after.startDate = IF L.edge = "left" /\ ~rejected
                                            THEN candidate ELSE L.task.startDate
                       /\ after.endDate = IF L.edge = "right" /\ ~rejected
                                          THEN candidate ELSE L.task.endDate]_vars
  /\ [][(isDragging /\ (PointerUpSelection \/ MouseLeave))
          => /\ startDateRef # None /\ lastCell # None
             /\ modalData' # None
             /\ {modalData'[1].startDate, modalData'[1].endDate} = {startDateRef[1], lastCell[1]}]_vars

\* a resize pointer-move arrives when an earlier move of the gesture has already
\* changed the task: the store's task differs from the closure's snapshot
C22_Witness ==
  /\ resizeListeners # <<>> /\ lastClientX # None /\ intent = "resize"
  /\ \E i \in 1..Len(resizeListeners) :
       /\ resizeListeners[i].task.id \in TaskIds
       /\ TaskById(resizeListeners[i].task.id) # resizeListeners[i].task
       /\ ENABLED ResizeMove

\* ------------------------------------------------------------------
\* a task list without the task of an id: the others, in their order
Without(ts, id) ==
  LET other(task) == task.id # id
  IN SelectSeq(ts, other)
\* lists of up to three tasks with distinct ids
SampleLists ==
  {[i \in 1..n |-> Task(ids[i], <<"a">>, "To Do", 0, 0)] :
     n \in 0..3, ids \in {f \in [1..3 -> 1..3] : \A i, j \in 1..3 : i # j => f[i] # f[j]}}

\* C23: a click on a task's delete button whose confirmation is declined
\* dispatches nothing, leaves the tasks unchanged and emits no notification; one
\* that is confirmed removes exactly the task of that id, the other tasks keeping
\* their content and relative order (deleteTask does so on every list).
C23_DeleteOnlyOnConfirm ==
  /\ [][(confirmAnswer' # "none" /\ PointerUpClick) =>
          /\ confirmAnswer' = "no"
               => (intent' = "none" /\ toast' = "none" /\ tasks' = tasks /\ storage' = storage)
          /\ confirmAnswer' = "yes"
               => (intent' = "delete" /\ toast' = "deleted" /\ tasks' = Without(tasks, dndActive)
                   /\ dndActive \notin {tasks'[i].id : i \in 1..Len(tasks')})]_vars
  /\ [](confirmAnswer = "yes"
          => \A ts \in SampleLists, id \in 1..3 :
               deleteTask([Store EXCEPT !.tasks = ts], id).tasks = Without(ts, id))

\* a confirmed delete has just removed a task
C23_Witness ==
  confirmAnswer = "yes" /\ intent = "delete" /\ toast = "deleted" /\ tasks = <<>> /\ storage # None

\* ------------------------------------------------------------------
\* two characters that are the same letter, whatever their case
SameLetter(a, b) == a = b \/ {a, b} = {"a", "A"} \/ {a, b} = {"b", "B"}
\* the criteria a task meets under the filters in force
MeetsFilters(task) ==
  /\ \/ filters.categories = <<>>
     \/ task.category \in {filters.categories[i] : i \in 1..Len(filters.categories)}
  /\ \/ filters.timeRange = None
     \/ task.startDate \in currentDate..(currentDate + 7 * filters.timeRange[1])
     \/ task.endDate \in currentDate..(currentDate + 7 * filters.timeRange[1])
  /\ \/ filters.searchQuery = <<>>
     \/ \E k \in 0..(Len(task.name) - Len(filters.searchQuery)) :
          \A i \in 1..Len(filters.searchQuery) :
            SameLetter(task.name[k + i], filters.searchQuery[i])

\* C24: filterTasks returns, in the order of the task list, exactly the tasks
\* that meet all criteria in force (category in the allow-list or the list empty;
\* no time range or the start or end day within [today, today + 7 N]; no query
\* or the name containing it whatever the case); changing the filters changes
\* neither the task list nor what is stored.
C24_FilterKeepsMatchingInOrder ==
  /\ [](filteredTasks = SelectSeq(tasks, MeetsFilters))
  /\ [][filters' # filters => (tasks' = tasks /\ storage' = storage)]_vars

\* all three criteria are in force and keep some tasks but not all
C24_Witness ==
  /\ filters.categories # <<>> /\ filters.timeRange # None /\ filters.searchQuery # <<>>
  /\ filteredTasks # <<>>
  /\ Len(filteredTasks) < Len(tasks)
  /\ \E i \in 1..Len(filteredTasks) : filteredTasks[i].startDate < currentDate

\* ------------------------------------------------------------------
\* the position of the task of an id in a task list (0: not in it)
IndexOf(ts, id) == IF \E i \in 1..Len(ts) : ts[i].id = id
                   THEN CHOOSE i \in 1..Len(ts) : ts[i].id = id ELSE 0

\* C25: the segments anchored at one day cell get distinct lanes (their position
\* in the cell's stack), increasing in the order of their tasks in the filtered
\* task list, whatever the tasks' dates and names.
C25_LanesFollowTaskOrder ==
  \A date \in gridDates :
    LET stack == cellStack(date)
    IN /\ {stack[k].id : k \in 1..Len(stack)} = {item.id : item \in cellItems(date)}
       /\ \A k, m \in 1..Len(stack) :
            k < m => (/\ stack[k].id # stack[m].id
                      /\ IndexOf(filteredTasks, stack[k].id) < IndexOf(filteredTasks, stack[m].id))

\* three segments are stacked in the cell of day 14, the second of them of a task
\* that starts after the third one's
C25_Witness ==
  /\ Len(cellStack(14)) = 3
  /\ cellStack(14)[2].startDate > cellStack(14)[3].startDate

\* ------------------------------------------------------------------
\* C26: task ids are unique in every reachable store state; addTask appends
\* exactly one task with the payload's fields and an id no task has, leaving the
\* tasks there and the filters as they are; updateTask and deleteTask bring in
\* no duplicate id.
C26_IdsUnique ==
  /\ [](\A i, j \in 1..Len(tasks) : i # j => tasks[i].id # tasks[j].id)
  /\ [][DispatchAddTask =>
          /\ Len(tasks') = Len(tasks) + 1
          /\ SubSeq(tasks', 1, Len(tasks)) = tasks
          /\ tasks'[Len(tasks')].id \notin TaskIds
          /\ tasks'[Len(tasks')] \in StorePayloads
          /\ filters' = filters]_vars
  /\ [][(DispatchUpdateTask \/ DispatchDeleteTask)
          => {tasks'[i].id : i \in 1..Len(tasks')} \subseteq TaskIds]_vars

\* two tasks with different ids, the second one added after the first
C26_Witness ==
  /\ Len(tasks) = MaxId + 1
  /\ tasks[1].id # tasks[Len(tasks)].id
  /\ storage = saveTasksToStorage(tasks)

C28_DialogOpenIffRange == isModalOpen <=> modalData # None
C28_EditingOnlyWhileOpen == editingTask # None => isModalOpen
C28_CommitLeavesNoEditingTask ==
  [][(modalData' # modalData /\ (PointerUpSelection \/ MouseLeave)) => editingTask' = None]_vars
C28_SaveAfterCommitAppends ==
  [][(isModalOpen /\ editingTask = None /\ tasks' # tasks /\ DialogSave)
       => /\ Len(tasks') = Len(tasks) + 1
          /\ SubSeq(tasks', 1, Len(tasks)) = tasks
          /\ tasks'[Len(tasks')].id \notin TaskIds]_vars
C28_CloseChangesNoTask ==
  [][(isModalOpen /\ ~isModalOpen' /\ DialogClose) => (tasks' = tasks /\ storage' = storage)]_vars
C28_DialogConsistent ==
  /\ [](C28_DialogOpenIffRange /\ C28_EditingOnlyWhileOpen)
  /\ C28_CommitLeavesNoEditingTask
  /\ C28_SaveAfterCommitAppends
  /\ C28_CloseChangesNoTask

\* a selection committed and saved: a task was created, the dialog is closed
C28_Witness ==
  /\ toast = "created"
  /\ intent = "add"
  /\ Len(tasks) = 1
  /\ ~isModalOpen /\ modalData = None /\ editingTask = None

\* ------------------------------------------------------------------
\* C29: every step of a resize started on the left handle leaves the resized
\* task's endDate, id, name and category as they were, every step of one started
\* on the right handle leaves its startDate, id, name and category as they were,
\* and every other task is left alone.
C29_ResizeChangesOnlyItsEdge ==
  [][ResizeMove =>
       /\ Len(tasks') = Len(tasks)
       /\ \A i \in 1..Len(resizeListeners) :
            LET L == resizeListeners[i]
            IN (resizeMoveRuns(L, resizeStartPos) /\ L.task.id \in TaskIds) =>
                 LET before == TaskById(L.task.id)
                     after == TaskIn(tasks', L.task.id)
                 IN /\ after.id = before.id
                    /\ after.name = before.name
                    /\ after.category = before.category
                    /\ L.edge = "left" => after.endDate = before.endDate
                    /\ L.edge = "right" => after.startDate = before.startDate
       /\ \A k \in 1..Len(tasks) :
            (\A i \in 1..Len(resizeListeners) : resizeListeners[i].task.id # tasks[k].id)
              => tasks'[k] = tasks[k]]_vars

\* ------------------------------------------------------------------
\* C30: saving the edit dialog of a task changes at most the name and the
\* category of the task with that id: its id and dates, the other tasks and the
\* number of tasks stay as they were; a save with an empty or blank name saves
\* nothing and leaves the dialog open (so a saved name is never blank).
C30_EditSaveChangesNameAndCategory ==
  [][(isModalOpen /\ editingTask # None /\ DialogSave) =>
       /\ Len(tasks') = Len(tasks)
       /\ \A k \in 1..Len(tasks) :
            IF tasks[k].id = editingTask[1].id
            THEN /\ tasks'[k].id = tasks[k].id
                 /\ tasks'[k].startDate = tasks[k].startDate
                 /\ tasks'[k].endDate = tasks[k].endDate
                 /\ tasks'[k].name \in {tasks[k].name} \cup {trim(n) : n \in TypedNames}
                 /\ tasks'[k].name # <<>>
                 /\ tasks'[k].category \in {tasks[k].category} \cup CategoryChoices
            ELSE tasks'[k] = tasks[k]
       /\ IF toast' = "updated"
          THEN ~isModalOpen' /\ modalData' = None /\ editingTask' = None
          ELSE /\ tasks' = tasks /\ storage' = storage /\ toast' = "none"
               /\ isModalOpen' /\ modalData' = modalData /\ editingTask' = editingTask]_vars

\* the stored task renamed through the edit dialog: its dates are the stored ones
C30_Witness ==
  /\ toast = "updated" /\ intent = "edit"
  /\ ~isModalOpen
  /\ tasks = <<Task(1, <<"b">>, "To Do", 0, 2)>>
====
